---------------------------- MODULE Spec2Model ----------------------------
(***************************************************************************)
(* Model of python-solver (src/solver.py, src/streamlit_app.py): the model *)
(* validator, the strategy selector, the constraint canonicalizer, the     *)
(* dispatcher resolver_modelo with its five strategy functions, and the    *)
(* validate-select-solve flow of the console and of the Streamlit page.    *)
(*                                                                         *)
(* Python values are modelled as follows.  Numbers are integers.  A list   *)
(* is a sequence.  Where the code inspects the run-time type of a value    *)
(* (validar_entrada), a value is a record [k, n, s, e]: k is the Python    *)
(* type ("num", "str", "list", "none"), n the number, s the string and e   *)
(* the items of a list.  None in the place of a text is the token Ninguno; *)
(* an optional number is <<>> for None and <<v>> for the number v.  The    *)
(* values a backend gives to variables are fixed-point, Escala units to 1. *)
(* Message texts are the source's texts without accents.                   *)
(***************************************************************************)
EXTENDS Integers, Sequences, FiniteSets, TLC

VARIABLES
    args,                  \* the four arguments of a validar_entrada call (typed values)
    coef_objetivo,         \* objective coefficients c
    restricciones,         \* constraint matrix A, a list of rows
    tipo_restricciones,    \* relation symbol of each row
    valores_restricciones, \* right-hand side b of each row
    tipo_variables,        \* domain tag of each variable
    metodo,                \* strategy name requested from resolver_modelo
    fase,                  \* "entrada" before the call, "hecho" after it; in a
                           \* front end, the step its flow has reached
    retorno,               \* what the call returned (or the exception it raised)
    traza,                 \* strategy functions and backend solves run by the call
    interfaz,              \* the front end that runs: "consola", "web" or "ninguna"
    bitacora,              \* what the front end has called and reported, in order
    datos                  \* the dictionary the console menu fills in

vars == <<args, coef_objetivo, restricciones, tipo_restricciones,
          valores_restricciones, tipo_variables, metodo, fase, retorno, traza,
          interfaz, bitacora, datos>>

----------------------------------------------------------------------------
(* Bounds of the model.                                                    *)

\* longest objective list / constraint row
MaxVars == 2
\* largest number of constraint rows of a full model
MaxRestr == 2
\* longest tipo_variables list and largest row count given to the selector
MaxSel == 6

----------------------------------------------------------------------------
(* Generic helpers.                                                        *)

Min(a, b) == IF a <= b THEN a ELSE b

Abs(n) == IF n < 0 THEN -n ELSE n

\* all lists over S of length lo..hi
SeqsEntre(S, lo, hi) == UNION {[1..k -> S] : k \in lo..hi}

\* all lists over S of length 0..n
SeqsHasta(S, n) == SeqsEntre(S, 0, n)

RECURSIVE Suma(_)
Suma(s) == IF s = <<>> THEN 0 ELSE Head(s) + Suma(Tail(s))

----------------------------------------------------------------------------
(* Typed Python values, as validar_entrada sees them.                      *)

PyNum(n) == [k |-> "num", n |-> n, s |-> "", e |-> <<>>]
PyStr(s) == [k |-> "str", n |-> 0, s |-> s, e |-> <<>>]
PyList(e) == [k |-> "list", n |-> 0, s |-> "", e |-> e]
PyNone == [k |-> "none", n |-> 0, s |-> "", e |-> <<>>]

\* isinstance(v, list)
EsLista(v) == v.k = "list"

\* isinstance(v, (int, float))
EsNumero(v) == v.k = "num"

\* a list of numbers / of strings as a typed value
PyNumeros(xs) == PyList([i \in 1..Len(xs) |-> PyNum(xs[i])])
PyCadenas(xs) == PyList([i \in 1..Len(xs) |-> PyStr(xs[i])])
PyFilas(rows) == PyList([i \in 1..Len(rows) |-> PyNumeros(rows[i])])

\* the relation symbols the validator accepts
Signos == {"<=", ">=", "="}

----------------------------------------------------------------------------
(* validar_entrada.                                                        *)

MsgObjetivo == "Los coeficientes de la funcion objetivo deben ser una lista de numeros."
MsgRestricciones == "Las restricciones deben ser una lista de listas."
MsgTipos == "Las restricciones deben tener tipos validos: ['<=', '>=', '=']"
MsgConteo == "Cada restriccion debe tener un tipo y un valor del lado derecho asociados."
MsgLongitud == "Todas las restricciones deben tener el mismo numero de coeficientes que la funcion objetivo."
\* str(TypeError) of len() applied to a value that has no length
MsgSinLen == "object of type 'NoneType' has no len()"

\* Python's None where a text is expected
Ninguno == "<None>"

\* (True, None) and (False, str(e))
Valido == [ok |-> TRUE, error |-> Ninguno]
Invalido(msg) == [ok |-> FALSE, error |-> msg]

\* line 172: the objective is a list and each item is an int or a float
ObjetivoEsListaDeNumerosMutante(c) == EsLista(c)
ObjetivoEsListaDeNumeros(c) ==
    EsLista(c) /\ \A i \in 1..Len(c.e) : EsNumero(c.e[i])

\* line 175: the matrix is a list and each row is a list
EsListaDeListas(A) ==
    EsLista(A) /\ \A i \in 1..Len(A.e) : EsLista(A.e[i])

\* line 178: the relations are a list and each is one of the three symbols
TiposValidos(t) ==
    EsLista(t) /\ \A i \in 1..Len(t.e) : t.e[i].k = "str" /\ t.e[i].s \in Signos

\* line 185: some row's length differs from the objective's
AlgunaFilaDesigual(c, A) ==
    \E i \in 1..Len(A.e) : Len(A.e[i].e) # Len(c.e)

\* lines 171-193
validar_entrada(c, A, t, b) ==
    IF ~ObjetivoEsListaDeNumeros(c) THEN Invalido(MsgObjetivo)
    ELSE IF ~EsListaDeListas(A) THEN Invalido(MsgRestricciones)
    ELSE IF ~TiposValidos(t) THEN Invalido(MsgTipos)
    ELSE IF Len(A.e) # Len(t.e) THEN Invalido(MsgConteo)
    \* len(valores_restricciones) raises TypeError, caught by the except clause
    ELSE IF ~EsLista(b) THEN Invalido(MsgSinLen)
    ELSE IF Len(A.e) # Len(b.e) THEN Invalido(MsgConteo)
    ELSE IF AlgunaFilaDesigual(c, A) THEN Invalido(MsgLongitud)
    ELSE Valido

----------------------------------------------------------------------------
(* Values of the variables a specification does not use.                   *)

SinArgs == <<PyNone, PyNone, PyNone, PyNone>>
SinRetorno == [tipo |-> "nada"]

SinModelo ==
    /\ coef_objetivo = <<>>
    /\ restricciones = <<>>
    /\ tipo_restricciones = <<>>
    /\ valores_restricciones = <<>>

\* solver.py lines 796-802: the dictionary main() starts with; the objective
\* is None (no element) until option 1 stores a list (one element, the list)
DatosIniciales ==
    [coef_objetivo |-> <<>>, tipo_variables |-> <<>>, restricciones |-> <<>>,
     tipo_restricciones |-> <<>>, valores_restricciones |-> <<>>]

SinInterfaz ==
    /\ interfaz = "ninguna"
    /\ bitacora = <<>>
    /\ datos = DatosIniciales

----------------------------------------------------------------------------
(* Specification of validar_entrada: every call with typed arguments.      *)

\* objectives: not a list, or a list of numbers and strings
ObjetivosCrudos ==
    {PyNone} \cup {PyList(e) : e \in SeqsHasta({PyNum(1), PyStr("a")}, MaxVars)}

\* rows: not a list, or a list of numbers
FilasCrudas == {PyNone} \cup {PyNumeros(r) : r \in SeqsHasta({1}, MaxVars)}

MatricesCrudas ==
    {PyNone} \cup {PyList(e) : e \in SeqsHasta(FilasCrudas, MaxRestr)}

\* relations: not a list, or a list of symbols, "<" being an unknown one
TiposCrudos ==
    {PyNone} \cup {PyCadenas(t) : t \in SeqsHasta(Signos \cup {"<"}, MaxRestr)}

\* right-hand sides: a value without a length, or a list of numbers
ValoresCrudos == {PyNone} \cup {PyNumeros(b) : b \in SeqsHasta({0}, MaxRestr)}

InitValidar ==
    /\ args \in ObjetivosCrudos \X MatricesCrudas \X TiposCrudos \X ValoresCrudos
    /\ SinModelo
    /\ tipo_variables = <<>>
    /\ metodo = "auto"
    /\ fase = "entrada"
    /\ retorno = SinRetorno
    /\ traza = <<>>
    /\ SinInterfaz

Validar ==
    /\ fase = "entrada"
    /\ fase' = "hecho"
    /\ retorno' = [tipo |-> "validacion",
                   valor |-> validar_entrada(args[1], args[2], args[3], args[4])]
    /\ UNCHANGED <<args, coef_objetivo, restricciones, tipo_restricciones,
                   valores_restricciones, tipo_variables, metodo, traza,
                   interfaz, bitacora, datos>>

NextValidar == Validar

SpecValidar == InitValidar /\ [][NextValidar]_vars

----------------------------------------------------------------------------
(* The strategy selector.                                                  *)

\* line 728: more than this many rows or variables is a large model
UmbralGranEscala == 5

\* line 701
todas_las_variables_son_continuas(tv) ==
    \A i \in 1..Len(tv) : tv[i] = "continua"

\* line 714
todas_las_variables_son_enteras(tv) ==
    \A i \in 1..Len(tv) : tv[i] = "entera"

\* a slip in line 728: "and" for "or"
problema_de_gran_escala_mutante(A, num_variables) ==
    Len(A) > UmbralGranEscala /\ num_variables > UmbralGranEscala

\* line 728
problema_de_gran_escala(A, num_variables) ==
    Len(A) > UmbralGranEscala \/ num_variables > UmbralGranEscala

\* a slip in lines 682-689: the all-integer test made before the all-continuous one
seleccionar_enteras_primero(tv, A) ==
    IF todas_las_variables_son_enteras(tv) THEN "programacion_entera"
    ELSE IF todas_las_variables_son_continuas(tv) THEN "simplex"
    ELSE IF problema_de_gran_escala(A, Len(tv)) THEN "relajacion_lagrangiana"
    ELSE "algoritmo_dual"

\* a slip in lines 682-689: the size test made before the all-integer one
seleccionar_escala_primero(tv, A) ==
    IF todas_las_variables_son_continuas(tv) THEN "simplex"
    ELSE IF problema_de_gran_escala(A, Len(tv)) THEN "relajacion_lagrangiana"
    ELSE IF todas_las_variables_son_enteras(tv) THEN "programacion_entera"
    ELSE "algoritmo_dual"

\* lines 682-689
seleccionar_algoritmo_automaticamente(tv, A) ==
    IF todas_las_variables_son_continuas(tv) THEN "simplex"
    ELSE IF todas_las_variables_son_enteras(tv) THEN "programacion_entera"
    ELSE IF problema_de_gran_escala(A, Len(tv)) THEN "relajacion_lagrangiana"
    ELSE "algoritmo_dual"

----------------------------------------------------------------------------
(* Specification of the selector: every tag list and every row count.      *)

\* the two tags of the front ends, and one that is neither
Etiquetas == {"continua", "entera", "binaria"}

InitSelector ==
    /\ args = SinArgs
    /\ coef_objetivo = <<>>
    /\ restricciones \in {[i \in 1..k |-> <<0>>] : k \in 0..MaxSel}
    /\ tipo_restricciones = <<>>
    /\ valores_restricciones = <<>>
    /\ tipo_variables \in SeqsHasta(Etiquetas, MaxSel)
    /\ metodo = "auto"
    /\ fase = "entrada"
    /\ retorno = SinRetorno
    /\ traza = <<>>
    /\ SinInterfaz

Seleccionar ==
    /\ fase = "entrada"
    /\ fase' = "hecho"
    /\ retorno' = [tipo |-> "seleccion",
                   valor |-> seleccionar_algoritmo_automaticamente(
                                 tipo_variables, restricciones)]
    /\ UNCHANGED <<args, coef_objetivo, restricciones, tipo_restricciones,
                   valores_restricciones, tipo_variables, metodo, traza,
                   interfaz, bitacora, datos>>

NextSelector == Seleccionar

SpecSelector == InitSelector /\ [][NextSelector]_vars

----------------------------------------------------------------------------
(* The constraint canonicalizer.                                           *)

\* [-coef for coef in coefs]
Negar(coefs) == [i \in 1..Len(coefs) |-> -coefs[i]]

\* lines 549-550: the rows and right-hand sides a "<=" row adds
CanonMenorIgual(coefs, rhs) == [filas |-> <<coefs>>, vals |-> <<rhs>>]

\* a slip in lines 552-553: the right-hand side of a ">=" row not negated
CanonMayorIgualMutante(coefs, rhs) == [filas |-> <<Negar(coefs)>>, vals |-> <<rhs>>]

\* lines 552-553: the row and right-hand side a ">=" row adds
CanonMayorIgual(coefs, rhs) == [filas |-> <<Negar(coefs)>>, vals |-> <<-rhs>>]

\* a slip in lines 555-558: the negated row put before the original
CanonIgualMutante(coefs, rhs) ==
    [filas |-> <<Negar(coefs), coefs>>, vals |-> <<-rhs, rhs>>]

\* lines 555-558: the two rows and right-hand sides any other row adds
CanonIgual(coefs, rhs) ==
    [filas |-> <<coefs, Negar(coefs)>>, vals |-> <<rhs, -rhs>>]

\* lines 548-558: the body of the loop for one row
CanonFila(coefs, signo, rhs) ==
    IF signo = "<=" THEN CanonMenorIgual(coefs, rhs)
    ELSE IF signo = ">=" THEN CanonMayorIgual(coefs, rhs)
    ELSE CanonIgual(coefs, rhs)

RECURSIVE NormalizarBucle(_, _, _, _, _, _)
\* line 547: the loop over zip(...), which ends with the shortest list
NormalizarBucle(A, t, b, i, filas, vals) ==
    IF i > Min(Len(A), Min(Len(t), Len(b))) THEN <<filas, vals>>
    ELSE LET paso == CanonFila(A[i], t[i], b[i])
         IN NormalizarBucle(A, t, b, i + 1, filas \o paso.filas, vals \o paso.vals)

\* lines 544-560: returns (restricciones_normalizadas, valores_normalizados)
_normalizar_restricciones_en_menor_igual(A, t, b) ==
    NormalizarBucle(A, t, b, 1, <<>>, <<>>)

----------------------------------------------------------------------------
(* Specification of the canonicalizer: every model the validator accepts.  *)

\* coefficients and right-hand sides of the models
Coefs == {-1, 2}
Lados == {-1, 0, 2}

\* the models with n variables and m rows that pass validar_entrada; the
\* canonicalizer is not given the objective, which is kept to one list per n
ModelosValidos(n, m) ==
    [c : {[i \in 1..n |-> 1]}, A : [1..m -> [1..n -> Coefs]],
     t : [1..m -> Signos], b : [1..m -> Lados]]

InitCanon ==
    /\ args = SinArgs
    /\ \E n \in 0..MaxVars, m \in 0..MaxRestr : \E mod \in ModelosValidos(n, m) :
          /\ coef_objetivo = mod.c
          /\ restricciones = mod.A
          /\ tipo_restricciones = mod.t
          /\ valores_restricciones = mod.b
    /\ tipo_variables = <<>>
    /\ metodo = "auto"
    /\ fase = "entrada"
    /\ retorno = SinRetorno
    /\ traza = <<>>
    /\ SinInterfaz

Normalizar ==
    /\ fase = "entrada"
    /\ fase' = "hecho"
    /\ LET par == _normalizar_restricciones_en_menor_igual(
                      restricciones, tipo_restricciones, valores_restricciones)
       IN retorno' = [tipo |-> "canonico", filas |-> par[1], vals |-> par[2]]
    /\ UNCHANGED <<args, coef_objetivo, restricciones, tipo_restricciones,
                   valores_restricciones, tipo_variables, metodo, traza,
                   interfaz, bitacora, datos>>

NextCanon == Normalizar

SpecCanon == InitCanon /\ [][NextCanon]_vars

----------------------------------------------------------------------------
(* The result record and the backends.                                     *)

\* f"x{i + 1}", f"y{i+1}", f"s_relaj_{i+1}": a prefix and a number
Nombre(prefijo, i) == <<prefijo, i>>

\* line 130: {'x1': v1, ...} as the list of its items in insertion order
_formatear_variables(valores) ==
    [i \in 1..Len(valores) |-> [nombre |-> Nombre("x", i), valor |-> valores[i]]]

\* a message: its text and the dictionary an f-string puts in it
Mensaje(texto) == [texto |-> texto, activas |-> <<>>]

\* lines 148-155; "variables or {}" is the dictionary itself, {} for None
_resultado_base(m, exito, estado, variables, valor_objetivo, mensaje) ==
    [metodo |-> m, exito |-> exito, estado |-> estado, variables |-> variables,
     valor_objetivo |-> valor_objetivo, mensaje |-> mensaje]

\* what a strategy function does: it returns a record or raises
Devuelve(registro) == [tipo |-> "registro", valor |-> registro]
Lanza(clase) == [tipo |-> "excepcion", clase |-> clase]

\* entries of traza: a strategy function entered, or a backend solve with the
\* program it was given and the outcome it produced
EvFormulador(nombre) ==
    [ev |-> "formulador", nombre |-> nombre, prob |-> <<>>, sol |-> <<>>]
EvSolve(prob, sol) ==
    [ev |-> "solve", nombre |-> prob.nombre, prob |-> <<prob>>, sol |-> <<sol>>]

\* The backends (PuLP's prob.solve, SciPy's linprog) are external: a solve ends
\* with any status and, for each variable, any value of a small family.
\* Values are in units of 1e-6 (see Escala).
EstadosPulp == {"Optimal", "Not Solved", "Infeasible", "Unbounded", "Undefined", "Inconnu"}
Asignaciones == {"ceros", "umbral", "alternos", "sin_valor"}

\* line 649: values are fixed-point numbers, Escala units to 1, so that 1e-6
\* is one unit; coefficients and right-hand sides are whole numbers
Escala == 1000000

\* line 649: the tolerance 1e-6 in the unit of the values
Tolerancia == 1

\* var.varValue of the i-th variable of a kind: None or a number
ValorDe(sol, i) ==
    CASE sol.asig = "ceros" -> <<0>>
      [] sol.asig = "umbral" -> <<Tolerancia>>
      [] sol.asig = "alternos" -> IF i % 2 = 1 THEN <<2 * Tolerancia>> ELSE <<0>>
      [] sol.asig = "sin_valor" -> <<>>
      [] sol.asig = "dado" -> <<sol.vals[i]>>

\* outcomes of prob.solve(): a status, and values when it is Optimal
SalidasPulp ==
    {[estado |-> e, mensaje |-> "", asig |-> "ceros", vals |-> <<>>] : e \in EstadosPulp \ {"Optimal"}}
    \cup {[estado |-> "Optimal", mensaje |-> "", asig |-> a, vals |-> <<>>] : a \in Asignaciones}

\* outcomes of linprog: res.success (estado = "Optimal"), res.message, res.x
SalidasLinprog ==
    {[estado |-> e, mensaje |-> msg, asig |-> a, vals |-> <<>>] :
        e \in {"Optimal", "Infeasible"}, msg \in {"", "linprog message"},
        a \in {"ceros", "alternos"}}

\* value(expression): None when a variable has no value
ValorExpr(coefs, vals) ==
    IF \E i \in 1..Len(coefs) : vals[i] = <<>> THEN <<>>
    ELSE <<Suma([i \in 1..Len(coefs) |-> coefs[i] * vals[i][1]])>>

\* sum(coef * var for coef, var in zip(fila, variables)) as one coefficient per
\* variable; zip ends with the shorter list
Expr(fila, nvars) == [i \in 1..nvars |-> IF i <= Len(fila) THEN fila[i] ELSE 0]

\* {var.name: var.varValue for var in variables}
ValoresDeVariables(prefijo, nvars, sol) ==
    [i \in 1..nvars |-> [nombre |-> Nombre(prefijo, i), valor |-> ValorDe(sol, i)]]

\* lines 469, 508, 583, 630-631: LpVariable(name, lowBound=0, cat=...)
Variables(prefijo, nvars, cat) ==
    [i \in 1..nvars |-> [nombre |-> Nombre(prefijo, i), lowBound |-> 0,
                         upBound |-> Ninguno, cat |-> cat]]

----------------------------------------------------------------------------
(* The strategy functions.  Each takes the model and the outcome sol of    *)
(* its backend call, and gives what it returns or raises (ret) and the     *)
(* functions and solves it ran (traza).                                    *)

\* the number of items of zip(A, t, b)
NumFilas(A, t, b) == Min(Len(A), Min(Len(t), Len(b)))

\* a slip in lines 449-452: the two inequalities exchanged
_construir_restriccion_pulp_mutante(expr, signo, rhs, nombre) ==
    [coefs |-> expr, holgura |-> 0, rhs |-> rhs, nombre |-> nombre,
     signo |-> IF signo = "<=" THEN ">=" ELSE IF signo = ">=" THEN "<=" ELSE "="]

\* lines 449-454: "<=" and ">=" are kept, any other symbol makes an equality
_construir_restriccion_pulp(expr, signo, rhs, nombre) ==
    [coefs |-> expr, holgura |-> 0, rhs |-> rhs, nombre |-> nombre,
     signo |-> IF signo = "<=" THEN "<=" ELSE IF signo = ">=" THEN ">=" ELSE "="]

\* lines 468-476 and 507-514: the program of resolver_simplex (cat Continuous)
\* and of resolver_con_programacion_entera (cat Integer)
ProgramaPrimal(nombre, cat, c, A, t, b) ==
    [nombre |-> nombre, sentido |-> "max",
     vars |-> Variables("x", Len(c), cat), holguras |-> <<>>,
     objetivo |-> c, penalizacion |-> 0, objetivo_holguras |-> <<>>,
     restr |-> [i \in 1..NumFilas(A, t, b) |->
                   _construir_restriccion_pulp(Expr(A[i], Len(c)), t[i], b[i],
                                               Nombre("Restriccion_", i))]]

\* a slip in lines 490-497: the values of the variables kept in the record of
\* a solve that did not end Optimal
ResultadoPulpMutante(m, prefijo, nvars, objetivo, sol, msgExito, msgFallo) ==
    _resultado_base(m, sol.estado = "Optimal", sol.estado,
        ValoresDeVariables(prefijo, nvars, sol),
        IF sol.estado = "Optimal"
        THEN ValorExpr(objetivo, [i \in 1..nvars |-> ValorDe(sol, i)])
        ELSE <<>>,
        Mensaje(IF sol.estado = "Optimal" THEN msgExito ELSE msgFallo))

\* lines 480-497 and 518-535: the record made of the status of a PuLP solve
ResultadoPulp(m, prefijo, nvars, objetivo, sol, msgExito, msgFallo) ==
    IF sol.estado = "Optimal"
    THEN _resultado_base(m, TRUE, sol.estado,
             ValoresDeVariables(prefijo, nvars, sol),
             ValorExpr(objetivo, [i \in 1..nvars |-> ValorDe(sol, i)]),
             Mensaje(msgExito))
    ELSE _resultado_base(m, FALSE, sol.estado, <<>>, <<>>, Mensaje(msgFallo))

\* lines 468-497
resolver_simplex(c, A, t, b, sol) ==
    LET prob == ProgramaPrimal("Metodo_Simplex", "Continuous", c, A, t, b)
    IN [ret |-> Devuelve(ResultadoPulp("simplex", "x", Len(c), c, sol,
                    "Solucion encontrada con el metodo Simplex.",
                    "No se encontro una solucion optima con el metodo Simplex.")),
        traza |-> <<EvFormulador("resolver_simplex"), EvSolve(prob, sol)>>]

\* lines 507-535
resolver_con_programacion_entera(c, A, t, b, sol) ==
    LET prob == ProgramaPrimal("Optimizacion_Entera", "Integer", c, A, t, b)
    IN [ret |-> Devuelve(ResultadoPulp("programacion_entera", "x", Len(c), c, sol,
                    "Solucion encontrada con programacion entera.",
                    "No se encontro una solucion optima en programacion entera.")),
        traza |-> <<EvFormulador("resolver_con_programacion_entera"), EvSolve(prob, sol)>>]

\* lines 397-422: the arguments of linprog; an empty A_ub or A_eq is passed as
\* None, written <<>> here
ProgramaLinprog(c, A, t, b) ==
    LET idx == [i \in 1..NumFilas(A, t, b) |-> i]
        ub == SelectSeq(idx, LAMBDA i : t[i] \in {"<=", ">="})
        eq == SelectSeq(idx, LAMBDA i : t[i] \notin {"<=", ">="})
    IN [nombre |-> "linprog", sentido |-> "min",
        vars |-> Variables("x", Len(c), "Continuous"), holguras |-> <<>>,
        objetivo |-> Negar(c), penalizacion |-> 0, objetivo_holguras |-> <<>>,
        restr |-> [k \in 1..Len(ub) |->
                      [coefs |-> IF t[ub[k]] = "<=" THEN A[ub[k]] ELSE Negar(A[ub[k]]),
                       holgura |-> 0,
                       rhs |-> IF t[ub[k]] = "<=" THEN b[ub[k]] ELSE 0 - b[ub[k]],
                       nombre |-> Nombre("A_ub", k), signo |-> "<="]]
                  \o [k \in 1..Len(eq) |->
                      [coefs |-> A[eq[k]], holgura |-> 0, rhs |-> b[eq[k]],
                       nombre |-> Nombre("A_eq", k), signo |-> "="]]]

\* lines 397-440; res.success is sol.estado = "Optimal", res.x the values,
\* res.fun the value of the negated objective
resolver_con_punto_interior(c, A, t, b, sol) ==
    LET prob == ProgramaLinprog(c, A, t, b)
        x == [i \in 1..Len(c) |-> ValorDe(sol, i)]
        fun == ValorExpr(prob.objetivo, x)
        reg == IF sol.estado = "Optimal"
               THEN _resultado_base("punto_interior", TRUE,
                        IF sol.mensaje = "" THEN "Optimal" ELSE sol.mensaje,
                        _formatear_variables(x), <<0 - fun[1]>>,
                        Mensaje("Solucion encontrada con el metodo de punto interior."))
               ELSE _resultado_base("punto_interior", FALSE,
                        IF sol.mensaje = "" THEN "Sin solucion" ELSE sol.mensaje,
                        <<>>, <<>>,
                        Mensaje("No se encontro una solucion optima con el metodo de punto interior."))
    IN [ret |-> Devuelve(reg),
        traza |-> <<EvFormulador("resolver_con_punto_interior"), EvSolve(prob, sol)>>]

\* a slip in line 589: the dual constraints written as upper bounds
ProgramaDualMutante(c, filas, vals) ==
    [nombre |-> "Metodo_Dual", sentido |-> "min",
     vars |-> Variables("y", Len(filas), "Continuous"), holguras |-> <<>>,
     objetivo |-> [j \in 1..Min(Len(vals), Len(filas)) |-> vals[j]],
     penalizacion |-> 0, objetivo_holguras |-> <<>>,
     restr |-> [k \in 1..Len(c) |->
                   [coefs |-> [j \in 1..Len(filas) |-> filas[j][k]], holgura |-> 0,
                    rhs |-> c[k], nombre |-> Nombre("cota_variable_", k),
                    signo |-> "<="]]]

\* lines 582-589: the dual program: one y per canonical row, one ">=" row per
\* variable of the model
ProgramaDual(c, filas, vals) ==
    [nombre |-> "Metodo_Dual", sentido |-> "min",
     vars |-> Variables("y", Len(filas), "Continuous"), holguras |-> <<>>,
     objetivo |-> [j \in 1..Min(Len(vals), Len(filas)) |-> vals[j]],
     penalizacion |-> 0, objetivo_holguras |-> <<>>,
     restr |-> [k \in 1..Len(c) |->
                   [coefs |-> [j \in 1..Len(filas) |-> filas[j][k]], holgura |-> 0,
                    rhs |-> c[k], nombre |-> Nombre("cota_variable_", k),
                    signo |-> ">="]]]

\* line 588: restriccion[idx_var] raises IndexError on a row shorter than the
\* objective
FilaCortaParaDual(c, filas) ==
    \E k \in 1..Len(c) : \E j \in 1..Len(filas) : Len(filas[j]) < k

\* a slip in lines 573-580: no early return, the dual of no row is built and
\* solved
resolver_con_algoritmo_dual_mutante(c, A, t, b, sol) ==
    LET par == _normalizar_restricciones_en_menor_igual(A, t, b)
        prob == ProgramaDual(c, par[1], par[2])
    IN IF FilaCortaParaDual(c, par[1])
       THEN [ret |-> Lanza("IndexError"),
             traza |-> <<EvFormulador("resolver_con_algoritmo_dual")>>]
       ELSE [ret |-> Devuelve(ResultadoPulp("algoritmo_dual", "y", Len(par[1]),
                         prob.objetivo, sol, "", "")),
             traza |-> <<EvFormulador("resolver_con_algoritmo_dual"),
                         EvSolve(prob, sol)>>]

\* lines 570-614
resolver_con_algoritmo_dual(c, A, t, b, sol) ==
    LET par == _normalizar_restricciones_en_menor_igual(A, t, b)
        filas == par[1]
        vals == par[2]
        yo == EvFormulador("resolver_con_algoritmo_dual")
    IN IF filas = <<>>
       THEN [ret |-> Devuelve(_resultado_base("algoritmo_dual", FALSE,
                         "Sin restricciones", <<>>, <<>>,
                         Mensaje("El metodo dual requiere al menos una restriccion para construir el problema dual."))),
             traza |-> <<yo>>]
       ELSE IF FilaCortaParaDual(c, filas)
       THEN [ret |-> Lanza("IndexError"), traza |-> <<yo>>]
       ELSE LET prob == ProgramaDual(c, filas, vals)
            IN [ret |-> Devuelve(ResultadoPulp("algoritmo_dual", "y", Len(filas),
                            prob.objetivo, sol,
                            "El metodo dual se resolvio correctamente. Puedes interpretar estas variables como precios sombra asociados a las restricciones originales.",
                            "No se pudo encontrar una solucion dual factible con los datos proporcionados.")),
                traza |-> <<yo, EvSolve(prob, sol)>>]

\* a slip in line 634: the coefficients summed with their signs
PenalizacionMutante(c) ==
    LET diez == 10 * Suma(c)
        o == IF diez = 0 THEN 1 ELSE diez
    IN IF 10 >= o THEN 10 ELSE o

\* line 634: max(10.0, 10 * sum(abs(c) for c in coef_objetivo) or 1.0)
Penalizacion(c) ==
    LET diez == 10 * Suma([i \in 1..Len(c) |-> Abs(c[i])])
        o == IF diez = 0 THEN 1 ELSE diez
    IN IF 10 >= o THEN 10 ELSE o

\* a slip in line 641: every relaxed row takes the first slack
ProgramaRelajadoMutante(c, filas, vals) ==
    [nombre |-> "Relajacion_Lagrangiana", sentido |-> "max",
     vars |-> Variables("x", Len(c), "Continuous"),
     holguras |-> Variables("s_relaj_", Len(filas), "Continuous"),
     objetivo |-> c, penalizacion |-> Penalizacion(c),
     objetivo_holguras |-> [j \in 1..Len(filas) |-> 0 - Penalizacion(c)],
     restr |-> [j \in 1..Min(Len(filas), Len(vals)) |->
                   [coefs |-> Expr(filas[j], Len(c)), holgura |-> 1, rhs |-> vals[j],
                    nombre |-> Nombre("Restriccion_relajada_", j), signo |-> "<="]]]

\* lines 629-642: the relaxed program: one slack per canonical row, row j
\* reading expr <= rhs + slack j
ProgramaRelajado(c, filas, vals) ==
    [nombre |-> "Relajacion_Lagrangiana", sentido |-> "max",
     vars |-> Variables("x", Len(c), "Continuous"),
     holguras |-> Variables("s_relaj_", Len(filas), "Continuous"),
     objetivo |-> c, penalizacion |-> Penalizacion(c),
     objetivo_holguras |-> [j \in 1..Len(filas) |-> 0 - Penalizacion(c)],
     restr |-> [j \in 1..Min(Len(filas), Len(vals)) |->
                   [coefs |-> Expr(filas[j], Len(c)), holgura |-> j, rhs |-> vals[j],
                    nombre |-> Nombre("Restriccion_relajada_", j), signo |-> "<="]]]

\* a slip in line 649: the tolerance taken as reached, "v and v >= 1e-6"
ViolacionesActivasMutante(violaciones) ==
    SelectSeq(violaciones,
              LAMBDA h : h.valor # <<>> /\ h.valor[1] # 0 /\ h.valor[1] >= Tolerancia)

\* line 649: the slacks with a value v such that "v and v > 1e-6"
ViolacionesActivas(violaciones) ==
    SelectSeq(violaciones,
              LAMBDA h : h.valor # <<>> /\ h.valor[1] # 0 /\ h.valor[1] > Tolerancia)

\* lines 625-669
resolver_con_relajacion_lagrangiana(c, A, t, b, sol) ==
    LET par == _normalizar_restricciones_en_menor_igual(A, t, b)
        prob == ProgramaRelajado(c, par[1], par[2])
        ns == Len(par[1])
        xs == [i \in 1..Len(c) |-> ValorDe(sol, i)]
        ss == [j \in 1..ns |-> ValorDe(sol, j)]
        violaciones == ValoresDeVariables("s_relaj_", ns, sol)
        activas == ViolacionesActivas(violaciones)
        \* value(prob.objective): sum(c * x) - penalizacion * sum(slacks)
        valor == ValorExpr(c \o prob.objetivo_holguras, xs \o ss)
        reg == IF sol.estado = "Optimal"
               THEN _resultado_base("relajacion_lagrangiana", TRUE, sol.estado,
                        ValoresDeVariables("x", Len(c), sol), valor,
                        IF activas # <<>>
                        THEN [texto |-> "Resolucion con relajacion lagrangiana y penalizacion de violaciones. Restricciones con holgura positiva: {}.",
                              activas |-> activas]
                        ELSE Mensaje("Resolucion con relajacion lagrangiana y penalizacion de violaciones. No se observaron violaciones significativas."))
               ELSE _resultado_base("relajacion_lagrangiana", FALSE, sol.estado,
                        <<>>, <<>>,
                        Mensaje("No se logro resolver la relajacion lagrangiana con los parametros actuales."))
    IN [ret |-> Devuelve(reg),
        traza |-> <<EvFormulador("resolver_con_relajacion_lagrangiana"), EvSolve(prob, sol)>>]

----------------------------------------------------------------------------
(* The dispatcher.                                                         *)

\* lines 751-757: the keys of the dispatch table
Despachables ==
    {"simplex", "punto_interior", "programacion_entera", "algoritmo_dual",
     "relajacion_lagrangiana"}

\* line 768: solver(coef_objetivo, restricciones, tipo_restricciones, valores_restricciones)
Despachar(m, c, A, t, b, sol) ==
    CASE m = "simplex" -> resolver_simplex(c, A, t, b, sol)
      [] m = "punto_interior" -> resolver_con_punto_interior(c, A, t, b, sol)
      [] m = "programacion_entera" -> resolver_con_programacion_entera(c, A, t, b, sol)
      [] m = "algoritmo_dual" -> resolver_con_algoritmo_dual(c, A, t, b, sol)
      [] m = "relajacion_lagrangiana" -> resolver_con_relajacion_lagrangiana(c, A, t, b, sol)

\* a slip in lines 748-749: the automatic selection is not made
MetodoResueltoMutante(m, tv, A) == m

\* lines 748-749: the strategy after the automatic selection
MetodoResuelto(m, tv, A) ==
    IF m \in {Ninguno, "auto"} THEN seleccionar_algoritmo_automaticamente(tv, A) ELSE m

\* a slip in line 762: the placeholder used for every unsupported name
EtiquetaNoSoportadoMutante(m) == "desconocido"

\* line 762: metodo or 'desconocido'
EtiquetaNoSoportado(m) == IF m = "" THEN "desconocido" ELSE m

\* lines 769-770: the record's metodo is set to the resolved strategy
FijarMetodo(ret, m) ==
    IF ret.tipo = "registro" /\ ret.valor.metodo # m
    THEN [ret EXCEPT !.valor.metodo = m]
    ELSE ret

\* a slip in lines 759-766: no check of the dispatch table, simplex by default
resolver_modelo_mutante(c, A, t, b, tv, m, sol) ==
    LET r == IF MetodoResuelto(m, tv, A) \in Despachables
             THEN Despachar(MetodoResuelto(m, tv, A), c, A, t, b, sol)
             ELSE resolver_simplex(c, A, t, b, sol)
    IN [ret |-> FijarMetodo(r.ret, MetodoResuelto(m, tv, A)), traza |-> r.traza]

\* lines 747-771
resolver_modelo(c, A, t, b, tv, m, sol) ==
    LET resuelto == MetodoResuelto(m, tv, A)
    IN IF resuelto \notin Despachables
       THEN [ret |-> Devuelve(_resultado_base(EtiquetaNoSoportado(resuelto), FALSE,
                         "Metodo no soportado", <<>>, <<>>,
                         Mensaje("El algoritmo solicitado no esta disponible."))),
             traza |-> <<>>]
       ELSE LET r == Despachar(resuelto, c, A, t, b, sol)
            IN [ret |-> FijarMetodo(r.ret, resuelto), traza |-> r.traza]

----------------------------------------------------------------------------
(* Specification of resolver_modelo: every call with a model of numeric    *)
(* lists, validated or not, and every strategy name.                       *)

\* rows of any length up to MaxVars: they need not match the objective
ModelosNumericos(n, m) ==
    [c : {[i \in 1..n |-> 1]}, A : [1..m -> SeqsHasta({1}, MaxVars)],
     t : [1..m -> Signos], b : [1..m -> {1}]]

\* the strategy names a caller passes: the six of the menu, None, the empty
\* name and a name of no strategy
Metodos == Despachables \cup {"auto", Ninguno, "", "branch_and_cut"}

\* the outcomes of the backend the strategy m calls
SalidasDe(m) == IF m = "punto_interior" THEN SalidasLinprog ELSE SalidasPulp

InitResolver ==
    /\ args = SinArgs
    /\ \E n \in 0..MaxVars, m \in 0..MaxRestr : \E mod \in ModelosNumericos(n, m) :
          /\ coef_objetivo = mod.c
          /\ restricciones = mod.A
          /\ tipo_restricciones = mod.t
          /\ valores_restricciones = mod.b
    /\ metodo \in Metodos
    \* an explicit strategy is called with the default tipo_variables (None,
    \* that is []), the automatic one with one tag per variable
    /\ tipo_variables \in
          IF metodo \in {"auto", Ninguno}
          THEN [1..Len(coef_objetivo) -> {"continua", "entera"}]
          ELSE {<<>>}
    /\ fase = "entrada"
    /\ retorno = SinRetorno
    /\ traza = <<>>
    /\ SinInterfaz

Resolver ==
    /\ fase = "entrada"
    /\ fase' = "hecho"
    /\ \E sol \in SalidasDe(MetodoResuelto(metodo, tipo_variables, restricciones)) :
          LET r == resolver_modelo(coef_objetivo, restricciones, tipo_restricciones,
                                   valores_restricciones, tipo_variables, metodo, sol)
          IN /\ retorno' = [tipo |-> "resolucion", ret |-> r.ret]
             /\ traza' = r.traza
    /\ UNCHANGED <<args, coef_objetivo, restricciones, tipo_restricciones,
                   valores_restricciones, tipo_variables, metodo,
                   interfaz, bitacora, datos>>

NextResolver == Resolver

SpecResolver == InitResolver /\ [][NextResolver]_vars

----------------------------------------------------------------------------
(* Specification of the automatic selection: the selector called on its    *)
(* own and resolver_modelo called with 'auto' or None, for tag lists of    *)
(* any tags and validated models of as many variables.                     *)

InitAuto ==
    /\ args = SinArgs
    /\ tipo_variables \in SeqsHasta(Etiquetas, MaxSel)
    /\ coef_objetivo = [i \in 1..Len(tipo_variables) |-> 1]
    /\ \E k \in 0..MaxSel :
          /\ restricciones = [j \in 1..k |-> [i \in 1..Len(tipo_variables) |-> 1]]
          /\ tipo_restricciones = [j \in 1..k |-> "<="]
          /\ valores_restricciones = [j \in 1..k |-> 1]
    /\ metodo \in {"auto", Ninguno}
    /\ fase = "entrada"
    /\ retorno = SinRetorno
    /\ traza = <<>>
    /\ SinInterfaz

NextAuto ==
    \/ Seleccionar
    \/ Resolver

SpecAuto == InitAuto /\ [][NextAuto]_vars

----------------------------------------------------------------------------
(* Specification of the strategy functions on validated models: every      *)
(* explicit strategy, on models whose coefficients tell rows, columns and  *)
(* signs apart.                                                            *)

\* objectives of n coefficients: all zero, all negative, of both signs
ObjetivosVariados(n) ==
    {[i \in 1..n |-> 0], [i \in 1..n |-> 0 - i],
     [i \in 1..n |-> IF i % 2 = 1 THEN 2 ELSE 0 - 1]}

\* rows of n coefficients, a different one in each column
FilasVariadas(n) == {[i \in 1..n |-> i], [i \in 1..n |-> 0 - i]}

\* the models with n variables and m rows that pass validar_entrada
ModelosVariados(n, m) ==
    [c : ObjetivosVariados(n), A : [1..m -> FilasVariadas(n)],
     t : [1..m -> Signos], b : [1..m -> {0 - 1, 2}]]

InitFormular ==
    /\ args = SinArgs
    /\ \E n \in 0..MaxVars, m \in 0..MaxRestr : \E mod \in ModelosVariados(n, m) :
          /\ coef_objetivo = mod.c
          /\ restricciones = mod.A
          /\ tipo_restricciones = mod.t
          /\ valores_restricciones = mod.b
    /\ metodo \in Despachables
    /\ tipo_variables = <<>>
    /\ fase = "entrada"
    /\ retorno = SinRetorno
    /\ traza = <<>>
    /\ SinInterfaz

NextFormular == Resolver

SpecFormular == InitFormular /\ [][NextFormular]_vars

----------------------------------------------------------------------------
(* Specification of the end-to-end scenario: the strategies simplex and    *)
(* algoritmo_dual on small models of one '<=' row, with a backend that     *)
(* keeps its contract, that is, returns an optimum of the program it is    *)
(* given.  The optimum is searched on a grid of half units, which holds a  *)
(* vertex optimum of every program of the family.                          *)

\* largest value of a variable on the grid of the backend, in whole units
Malla == 10

\* the values of one variable on the grid
ValoresDeMalla == {k * (Escala \div 2) : k \in 0..(2 * Malla)}

\* the value of sum(coef * var) at the point x
Evaluar(coefs, x) == Suma([i \in 1..Len(coefs) |-> coefs[i] * x[i]])

\* the point x satisfies the constraint r (of a program without slacks)
Cumple(r, x) ==
    CASE r.signo = "<=" -> Evaluar(r.coefs, x) <= r.rhs * Escala
      [] r.signo = ">=" -> Evaluar(r.coefs, x) >= r.rhs * Escala
      [] r.signo = "=" -> Evaluar(r.coefs, x) = r.rhs * Escala

\* the feasible points of the grid: every variable is at least its lower
\* bound 0 and every constraint holds
Factibles(prob) ==
    {x \in [1..Len(prob.vars) -> ValoresDeMalla] :
        \A j \in 1..Len(prob.restr) : Cumple(prob.restr[j], x)}

\* the feasible points no other feasible point improves on
Optimos(prob) ==
    LET F == Factibles(prob)
        v(x) == Evaluar(prob.objetivo, x)
    IN {x \in F : \A y \in F : IF prob.sentido = "max" THEN v(x) >= v(y)
                                                       ELSE v(x) <= v(y)}

\* what a backend that keeps its contract answers
SalidasExactas(prob) ==
    IF Factibles(prob) = {}
    THEN {[estado |-> "Infeasible", mensaje |-> "", asig |-> "ceros", vals |-> <<>>]}
    ELSE {[estado |-> "Optimal", mensaje |-> "", asig |-> "dado", vals |-> x] :
             x \in Optimos(prob)}

\* the program a call hands to its backend, if it gets that far: it is built
\* before the solve and does not depend on its outcome
ProgramaDe(c, A, t, b, tv, m) ==
    LET cualquiera == CHOOSE sol \in SalidasPulp : TRUE
        solves == SelectSeq(resolver_modelo(c, A, t, b, tv, m, cualquiera).traza,
                            LAMBDA ev : ev.ev = "solve")
    IN IF solves = <<>> THEN <<>> ELSE <<solves[1].prob[1]>>

InitEscenario ==
    /\ args = SinArgs
    /\ coef_objetivo \in [1..2 -> {1, 3, 5}]
    /\ restricciones \in {<<fila>> : fila \in [1..2 -> {1, 2}]}
    /\ tipo_restricciones = <<"<=">>
    /\ valores_restricciones = <<10>>
    /\ metodo \in {"simplex", "algoritmo_dual"}
    /\ tipo_variables = <<>>
    /\ fase = "entrada"
    /\ retorno = SinRetorno
    /\ traza = <<>>
    /\ SinInterfaz

\* resolver_modelo with the backend that keeps its contract
ResolverExacto ==
    /\ fase = "entrada"
    /\ fase' = "hecho"
    /\ LET prob == ProgramaDe(coef_objetivo, restricciones, tipo_restricciones,
                              valores_restricciones, tipo_variables, metodo)
       IN \E sol \in IF prob = <<>> THEN SalidasPulp ELSE SalidasExactas(prob[1]) :
             LET r == resolver_modelo(coef_objetivo, restricciones,
                                      tipo_restricciones, valores_restricciones,
                                      tipo_variables, metodo, sol)
             IN /\ retorno' = [tipo |-> "resolucion", ret |-> r.ret]
                /\ traza' = r.traza
    /\ UNCHANGED <<args, coef_objetivo, restricciones, tipo_restricciones,
                   valores_restricciones, tipo_variables, metodo,
                   interfaz, bitacora, datos>>

NextEscenario == ResolverExacto

SpecEscenario == InitEscenario /\ [][NextEscenario]_vars

----------------------------------------------------------------------------
(* The two front ends, from the moment the user asks for the solution:     *)
(* main() once its menu loop is left (lines 844-864) and the Streamlit     *)
(* page once the form is submitted (lines 174-210).  Each call and each    *)
(* report of the front end is one step, recorded in bitacora.  The flows   *)
(* are taken for every model of numeric lists, well formed or not, which   *)
(* includes every model the wizard and the form can hold.                  *)

\* lines 196-225 of solver.py and 75-84 of streamlit_app.py: the six keys of
\* the menu of algorithms
MenuAlgoritmos == Despachables \cup {"auto"}

\* an entry of bitacora: the step, the model it was given and a text
Paso(paso, modelo, dato) == [paso |-> paso, modelo |-> modelo, dato |-> dato]

\* the four lists given to validar_entrada and to resolver_modelo
ModeloActual ==
    <<coef_objetivo, restricciones, tipo_restricciones, valores_restricciones>>

\* a slip in "if not valido": the flow goes on whatever the validator said
SiguienteTrasValidarMutante(v) == "validado"

\* solver.py line 851 and streamlit_app.py line 182: if not valido
SiguienteTrasValidar(v) == IF v.ok THEN "validado" ELSE "rechazado"

InitInterfaz ==
    /\ args = SinArgs
    /\ \E n \in 0..MaxVars, m \in 0..MaxRestr : \E mod \in ModelosNumericos(n, m) :
          /\ coef_objetivo = mod.c
          /\ restricciones = mod.A
          /\ tipo_restricciones = mod.t
          /\ valores_restricciones = mod.b
    /\ tipo_variables \in [1..Len(coef_objetivo) -> {"continua", "entera"}]
    /\ interfaz \in {"consola", "web"}
    \* the page reads the algorithm in the sidebar before the form is
    \* submitted, main() asks for it after the validation
    /\ metodo \in IF interfaz = "web" THEN MenuAlgoritmos ELSE {Ninguno}
    /\ fase = "enviado"
    /\ retorno = SinRetorno
    /\ traza = <<>>
    /\ bitacora = <<>>
    /\ datos = DatosIniciales

\* valido, error = validar_entrada(...)
LlamarValidar ==
    /\ fase = "enviado"
    /\ LET v == validar_entrada(PyNumeros(coef_objetivo), PyFilas(restricciones),
                                PyCadenas(tipo_restricciones),
                                PyNumeros(valores_restricciones))
       IN /\ retorno' = [tipo |-> "validacion", valor |-> v]
          /\ bitacora' = Append(bitacora,
                                Paso("validar_entrada", ModeloActual, v.error))
          /\ fase' = SiguienteTrasValidar(v)
    /\ UNCHANGED <<args, coef_objetivo, restricciones, tipo_restricciones,
                   valores_restricciones, tipo_variables, metodo, traza, interfaz, datos>>

\* the error reason is shown and the run ends
InformarError ==
    /\ fase = "rechazado"
    /\ bitacora' = Append(bitacora, Paso("informar_error", <<>>, retorno.valor.error))
    /\ fase' = "fin"
    /\ UNCHANGED <<args, coef_objetivo, restricciones, tipo_restricciones,
                   valores_restricciones, tipo_variables, metodo, retorno, traza,
                   interfaz, datos>>

\* resultado = resolver_modelo(..., tipo_variables=tipo_variables, metodo=metodo)
LlamarResolver ==
    /\ fase = "seleccionado"
    /\ \E sol \in SalidasDe(MetodoResuelto(metodo, tipo_variables, restricciones)) :
          LET r == resolver_modelo(coef_objetivo, restricciones, tipo_restricciones,
                                   valores_restricciones, tipo_variables, metodo, sol)
          IN /\ retorno' = [tipo |-> "resolucion", ret |-> r.ret]
             /\ traza' = r.traza
    /\ bitacora' = Append(bitacora, Paso("resolver_modelo", ModeloActual, metodo))
    /\ fase' = "resuelto"
    /\ UNCHANGED <<args, coef_objetivo, restricciones, tipo_restricciones,
                   valores_restricciones, tipo_variables, metodo, interfaz, datos>>

\* the record is shown; an exception of resolver_modelo ends the run before
MostrarResultado ==
    /\ fase = "resuelto"
    /\ retorno.ret.tipo = "registro"
    /\ bitacora' = Append(bitacora, Paso("mostrar_resultado", <<>>, retorno.ret.valor.estado))
    /\ fase' = "fin"
    /\ UNCHANGED <<args, coef_objetivo, restricciones, tipo_restricciones,
                   valores_restricciones, tipo_variables, metodo, retorno, traza,
                   interfaz, datos>>

\* solver.py line 850
ConsolaValidar == interfaz = "consola" /\ LlamarValidar

\* solver.py lines 851-853
ConsolaInformarError == interfaz = "consola" /\ InformarError

\* solver.py line 855: metodo = seleccionar_algoritmo(), any key of the menu
ConsolaSeleccionar ==
    /\ interfaz = "consola"
    /\ fase = "validado"
    /\ \E m \in MenuAlgoritmos :
          /\ metodo' = m
          /\ bitacora' = Append(bitacora, Paso("seleccionar_algoritmo", <<>>, m))
    /\ fase' = "seleccionado"
    /\ UNCHANGED <<args, coef_objetivo, restricciones, tipo_restricciones,
                   valores_restricciones, tipo_variables, retorno, traza, interfaz, datos>>

\* solver.py lines 856-863
ConsolaResolver == interfaz = "consola" /\ LlamarResolver

\* solver.py line 864
ConsolaMostrar == interfaz = "consola" /\ MostrarResultado

\* streamlit_app.py lines 174-181
WebValidar == interfaz = "web" /\ LlamarValidar

\* streamlit_app.py lines 182-183
WebInformarError == interfaz = "web" /\ InformarError

\* streamlit_app.py lines 185-191: 'auto' is resolved by the page itself
WebSeleccionar ==
    /\ interfaz = "web"
    /\ fase = "validado"
    /\ IF metodo = "auto"
       THEN LET m == seleccionar_algoritmo_automaticamente(tipo_variables, restricciones)
            IN /\ metodo' = m
               /\ bitacora' = Append(bitacora,
                      Paso("seleccionar_algoritmo_automaticamente", <<>>, m))
       ELSE UNCHANGED <<metodo, bitacora>>
    /\ fase' = "seleccionado"
    /\ UNCHANGED <<args, coef_objetivo, restricciones, tipo_restricciones,
                   valores_restricciones, tipo_variables, retorno, traza, interfaz, datos>>

\* streamlit_app.py lines 192-199
WebResolver == interfaz = "web" /\ LlamarResolver

\* streamlit_app.py lines 201-210
WebMostrar == interfaz = "web" /\ MostrarResultado

NextInterfaz ==
    \/ ConsolaValidar
    \/ ConsolaInformarError
    \/ ConsolaSeleccionar
    \/ ConsolaResolver
    \/ ConsolaMostrar
    \/ WebValidar
    \/ WebInformarError
    \/ WebSeleccionar
    \/ WebResolver
    \/ WebMostrar

SpecInterfaz == InitInterfaz /\ [][NextInterfaz]_vars

----------------------------------------------------------------------------
(* The console wizard: the menu loop of main() (solver.py lines 804-842)   *)
(* and the hand-over of its dictionary to the validation (lines 844-848).  *)

\* what the user types for the objective and for the rows of a constraint
CoeficientesDelObjetivo == {1, 2}
CoeficientesDeFila == {1}
LadosDerechos == {1}

\* capturar_funcion_objetivo: _solicitar_lista_floats asks again until the
\* list is not empty
capturar_funcion_objetivo == SeqsEntre(CoeficientesDelObjetivo, 1, MaxVars)

\* capturar_tipo_variables(num_variables): one accepted tag per variable
capturar_tipo_variables(num_variables) ==
    [1..num_variables -> {"continua", "entera"}]

\* capturar_restricciones(num_variables): at least one row, each row asked
\* again until it has num_variables coefficients, each sign asked again until
\* it is one of the three; the three lists it returns
capturar_restricciones(num_variables) ==
    UNION {[restricciones : [1..m -> [1..num_variables -> CoeficientesDeFila]],
            tipos : [1..m -> Signos],
            valores : [1..m -> LadosDerechos]] : m \in 1..MaxRestr}

\* "not datos.get('coef_objetivo')": None or an empty list
SinObjetivo(d) == d.coef_objetivo = <<>> \/ d.coef_objetivo[1] = <<>>

\* len(datos['coef_objetivo'])
NumVariables(d) == Len(d.coef_objetivo[1])

\* datos_configurados(datos)
datos_configurados(d) ==
    /\ ~SinObjetivo(d)
    /\ Len(d.tipo_variables) = NumVariables(d)
    /\ d.restricciones # <<>>

\* a slip in option 1: the lists that depend on the objective are kept
DatosTrasObjetivoMutante(d, c) == [d EXCEPT !.coef_objetivo = <<c>>]

\* option 1: the objective is replaced and the four dependent lists are emptied
DatosTrasObjetivo(d, c) ==
    [coef_objetivo |-> <<c>>, tipo_variables |-> <<>>, restricciones |-> <<>>,
     tipo_restricciones |-> <<>>, valores_restricciones |-> <<>>]

\* option 2: datos['tipo_variables'] = capturar_tipo_variables(...)
DatosTrasTipos(d, tv) == [d EXCEPT !.tipo_variables = tv]

\* option 3: the three constraint lists are replaced together
DatosTrasRestricciones(d, r) ==
    [d EXCEPT !.restricciones = r.restricciones,
              !.tipo_restricciones = r.tipos,
              !.valores_restricciones = r.valores]

\* main() before the loop: the dictionary is new, nothing has been called
InitAsistente ==
    /\ args = SinArgs
    /\ SinModelo
    /\ tipo_variables = <<>>
    /\ metodo = Ninguno
    /\ fase = "menu"
    /\ retorno = SinRetorno
    /\ traza = <<>>
    /\ interfaz = "consola"
    /\ bitacora = <<>>
    /\ datos = DatosIniciales

\* what a turn of the loop that stays in the menu leaves alone
EnElMenu ==
    UNCHANGED <<args, coef_objetivo, restricciones, tipo_restricciones,
                valores_restricciones, tipo_variables, metodo, fase, retorno,
                traza, interfaz, bitacora>>

\* option '1'
Opcion1 ==
    /\ fase = "menu"
    /\ \E c \in capturar_funcion_objetivo : datos' = DatosTrasObjetivo(datos, c)
    /\ EnElMenu

\* option '2': refused while there is no objective
Opcion2 ==
    /\ fase = "menu"
    /\ IF SinObjetivo(datos)
       THEN datos' = datos
       ELSE \E tv \in capturar_tipo_variables(NumVariables(datos)) :
               datos' = DatosTrasTipos(datos, tv)
    /\ EnElMenu

\* option '3': refused while there is no objective; float() of a right-hand
\* side that is not a number raises ValueError, which nothing catches, before
\* the dictionary is touched
Opcion3 ==
    /\ fase = "menu"
    /\ IF SinObjetivo(datos)
       THEN datos' = datos /\ EnElMenu
       ELSE \/ /\ \E r \in capturar_restricciones(NumVariables(datos)) :
                     datos' = DatosTrasRestricciones(datos, r)
               /\ EnElMenu
            \/ /\ fase' = "abortado"
               /\ retorno' = Lanza("ValueError")
               /\ UNCHANGED <<args, coef_objetivo, restricciones, tipo_restricciones,
                              valores_restricciones, tipo_variables, metodo, traza,
                              interfaz, bitacora, datos>>

\* option '4': refused while datos_configurados is false; the summary is
\* shown and the loop is left when the user answers 's'; lines 844-848 then
\* read the five lists out of the dictionary
Opcion4 ==
    /\ fase = "menu"
    /\ IF ~datos_configurados(datos)
       THEN UNCHANGED vars
       ELSE \E continuar \in BOOLEAN :
               IF continuar
               THEN /\ fase' = "enviado"
                    /\ coef_objetivo' = datos.coef_objetivo[1]
                    /\ tipo_variables' = datos.tipo_variables
                    /\ restricciones' = datos.restricciones
                    /\ tipo_restricciones' = datos.tipo_restricciones
                    /\ valores_restricciones' = datos.valores_restricciones
                    /\ UNCHANGED <<args, metodo, retorno, traza, interfaz,
                                   bitacora, datos>>
               ELSE UNCHANGED vars

\* option '0': the run ends
Opcion0 ==
    /\ fase = "menu"
    /\ fase' = "fin"
    /\ UNCHANGED <<args, coef_objetivo, restricciones, tipo_restricciones,
                   valores_restricciones, tipo_variables, metodo, retorno, traza,
                   interfaz, bitacora, datos>>

NextAsistente ==
    \/ Opcion0
    \/ Opcion1
    \/ Opcion2
    \/ Opcion3
    \/ Opcion4
    \/ ConsolaValidar
    \/ ConsolaSeleccionar
    \/ ConsolaResolver
    \/ ConsolaMostrar

SpecAsistente == InitAsistente /\ [][NextAsistente]_vars

----------------------------------------------------------------------------
(* Claims about validar_entrada (specification SpecValidar).               *)

ValidacionHecha == fase = "hecho" /\ retorno.tipo = "validacion"

\* the defects of a model that claim C1 lists, read off the arguments
ObjetivoConNoNumero(c) == EsLista(c) /\ \E i \in 1..Len(c.e) : c.e[i].k # "num"
SignoDesconocido(t) ==
    EsLista(t) /\ \E i \in 1..Len(t.e) : ~(t.e[i].k = "str" /\ t.e[i].s \in {"<=", ">=", "="})
ConteoDistinto(A, t, b) ==
    \/ EsLista(A) /\ EsLista(t) /\ Len(A.e) # Len(t.e)
    \/ EsLista(A) /\ EsLista(b) /\ Len(A.e) # Len(b.e)
FilaDeOtroLargo(c, A) ==
    /\ EsLista(c) /\ EsLista(A)
    /\ \E i \in 1..Len(A.e) : EsLista(A.e[i]) /\ Len(A.e[i].e) # Len(c.e)

\* the shape (True, None) promises
FormaCorrecta(c, A, t, b) ==
    /\ Len(A.e) = Len(t.e) /\ Len(A.e) = Len(b.e)
    /\ \A i \in 1..Len(A.e) : Len(A.e[i].e) = Len(c.e)
    /\ \A i \in 1..Len(t.e) : t.e[i].s \in {"<=", ">=", "="}

\* C1: validar_entrada returns (False, reason), reason a non-empty text, for
\* every model with a non-numeric objective item, an unknown relation symbol,
\* a row count different from the relation or right-hand-side count, or a row
\* whose length is not the objective's; and whenever it returns (True, None)
\* the counts agree, every row has the objective's length and every relation
\* is one of the three symbols.
C1_ValidadorRechazaDefectos ==
    ValidacionHecha =>
        LET c == args[1]  A == args[2]  t == args[3]  b == args[4]
            r == retorno.valor
        IN /\ (ObjetivoConNoNumero(c) \/ SignoDesconocido(t)
                  \/ ConteoDistinto(A, t, b) \/ FilaDeOtroLargo(c, A))
                 => ~r.ok /\ r.error \notin {"", Ninguno}
           /\ r.ok => r.error = Ninguno /\ FormaCorrecta(c, A, t, b)

\* C1 witness: a model whose only defect is a row of another length was rejected
C1_Testigo ==
    /\ ValidacionHecha
    /\ FilaDeOtroLargo(args[1], args[2])
    /\ ~ObjetivoConNoNumero(args[1]) /\ ~SignoDesconocido(args[3])
    /\ ~ConteoDistinto(args[2], args[3], args[4])
    /\ retorno.valor = Invalido(MsgLongitud)

\* C2 (as claimed): an empty objective list is never accepted
C2_ObjetivoVacioRechazado ==
    (ValidacionHecha /\ args[1] = PyList(<<>>)) => ~retorno.valor.ok

----------------------------------------------------------------------------
(* Claims about the selector (specification SpecSelector).                 *)

SeleccionHecha == fase = "hecho" /\ retorno.tipo = "seleccion"

TodasSon(tv, etiqueta) == \A i \in 1..Len(tv) : tv[i] = etiqueta
HayAlguna(tv, etiqueta) == \E i \in 1..Len(tv) : tv[i] = etiqueta

\* C3: for every tag list of any length from 0 up whose tags are all
\* 'continua', and every number of rows, the selector returns 'simplex'.
C3_ContinuasDanSimplex ==
    (SeleccionHecha /\ TodasSon(tipo_variables, "continua"))
        => retorno.valor = "simplex"

\* C3 witness: an all-continuous model with more than five variables and rows
C3_Testigo ==
    /\ SeleccionHecha
    /\ TodasSon(tipo_variables, "continua")
    /\ Len(tipo_variables) > 5 /\ Len(restricciones) > 5
    /\ retorno.valor = "simplex"

\* C4 (as claimed): for every tag list of any length from 0 up whose tags are
\* all 'entera' the selector returns 'programacion_entera'
C4_EnterasDesdeCero ==
    (SeleccionHecha /\ TodasSon(tipo_variables, "entera"))
        => retorno.valor = "programacion_entera"

\* C4 (amended): for every tag list of length 1 or more whose tags are all
\* 'entera', and every number of rows, the selector returns
\* 'programacion_entera'; for the empty list it returns 'simplex'.
C4_EnterasDanProgramacionEntera ==
    (SeleccionHecha /\ TodasSon(tipo_variables, "entera"))
        => retorno.valor =
               IF Len(tipo_variables) >= 1 THEN "programacion_entera" ELSE "simplex"

\* C4 witness: an all-integer model with more than five variables and rows
C4_Testigo ==
    /\ SeleccionHecha
    /\ TodasSon(tipo_variables, "entera")
    /\ Len(tipo_variables) > 5 /\ Len(restricciones) > 5
    /\ retorno.valor = "programacion_entera"

\* C5: for every tag list with at least one 'continua' and at least one
\* 'entera' tag the selector returns 'algoritmo_dual' exactly when there are
\* at most 5 rows and at most 5 tags, and 'relajacion_lagrangiana' exactly
\* when there are more than 5 rows or more than 5 tags; it never returns
\* 'programacion_entera' or 'simplex'.
C5_MixtasDualORelajacion ==
    (SeleccionHecha /\ HayAlguna(tipo_variables, "continua")
                    /\ HayAlguna(tipo_variables, "entera"))
        => /\ retorno.valor \in {"algoritmo_dual", "relajacion_lagrangiana"}
           /\ retorno.valor = "algoritmo_dual"
                <=> (Len(restricciones) <= 5 /\ Len(tipo_variables) <= 5)
           /\ retorno.valor = "relajacion_lagrangiana"
                <=> (Len(restricciones) > 5 \/ Len(tipo_variables) > 5)

\* C5 witness: a mixed model with six rows and two variables got the relaxation
C5_Testigo ==
    /\ SeleccionHecha
    /\ tipo_variables = <<"continua", "entera">>
    /\ Len(restricciones) = 6
    /\ retorno.valor = "relajacion_lagrangiana"

----------------------------------------------------------------------------
(* Claims about the canonicalizer (specification SpecCanon).               *)

CanonHecho == fase = "hecho" /\ retorno.tipo = "canonico"

\* the number of rows among the first k whose relation is in S
Cuenta(t, k, S) == Cardinality({j \in 1..k : t[j] \in S})

\* where the output of input row i starts: one place for each earlier "<=" or
\* ">=" row and two for each earlier "=" row
Desde(t, i) == Cuenta(t, i - 1, {"<=", ">="}) + 2 * Cuenta(t, i - 1, {"="})

\* C6: the canonicalizer takes the rows in input order; a '<=' row gives one
\* output row equal to it, with its right-hand side; a '>=' row gives one
\* output row with every coefficient and the right-hand side negated; an '='
\* row gives two consecutive output rows, the original and then its exact
\* negation.  The output has (#'<=') + (#'>=') + 2*(#'=') rows and as many
\* right-hand sides.
C6_CanonicoPorFila ==
    CanonHecho =>
        LET A == restricciones  t == tipo_restricciones  b == valores_restricciones
            F == retorno.filas  V == retorno.vals
            m == Len(A)
        IN /\ Len(F) = Cuenta(t, m, {"<="}) + Cuenta(t, m, {">="})
                         + 2 * Cuenta(t, m, {"="})
           /\ Len(V) = Len(F)
           /\ \A i \in 1..m :
                LET p == Desde(t, i) + 1
                IN /\ t[i] = "<=" => F[p] = A[i] /\ V[p] = b[i]
                   /\ t[i] = ">=" =>
                        /\ Len(F[p]) = Len(A[i])
                        /\ \A k \in 1..Len(A[i]) : F[p][k] = 0 - A[i][k]
                        /\ V[p] = 0 - b[i]
                   /\ t[i] = "=" =>
                        /\ F[p] = A[i] /\ V[p] = b[i]
                        /\ Len(F[p + 1]) = Len(A[i])
                        /\ \A k \in 1..Len(A[i]) : F[p + 1][k] = 0 - A[i][k]
                        /\ V[p + 1] = 0 - b[i]

\* C6 witness: a model with an '=' row after a '>=' row was canonicalized to
\* three rows
C6_Testigo ==
    /\ CanonHecho
    /\ tipo_restricciones = <<">=", "=">>
    /\ Len(coef_objetivo) = 2
    /\ Len(retorno.filas) = 3

\* row . x
Producto(fila, x) == Suma([k \in 1..Len(fila) |-> fila[k] * x[k]])

\* x satisfies row i of the model under the row's own relation
CumpleOriginal(x, i) ==
    LET lhs == Producto(restricciones[i], x)
        rhs == valores_restricciones[i]
    IN CASE tipo_restricciones[i] = "<=" -> lhs <= rhs
         [] tipo_restricciones[i] = ">=" -> lhs >= rhs
         [] tipo_restricciones[i] = "=" -> lhs = rhs

\* the points the regions are compared on
Puntos(n) == [1..n -> -1..1]

\* C7: canonicalization preserves the feasible region: for every validated
\* model and every integer point x, x satisfies every original constraint
\* under its own relation exactly when x satisfies every canonical row read
\* as row . x <= rhs.
C7_MismaRegionFactible ==
    CanonHecho =>
        \A x \in Puntos(Len(coef_objetivo)) :
            (\A i \in 1..Len(restricciones) : CumpleOriginal(x, i))
                <=> (\A j \in 1..Len(retorno.filas) :
                        Producto(retorno.filas[j], x) <= retorno.vals[j])

\* C7 witness: a model with an '=' and a '>=' row that some point satisfies and
\* some point violates was canonicalized
C7_Testigo ==
    /\ CanonHecho
    /\ tipo_restricciones = <<"=", ">=">>
    /\ Len(coef_objetivo) = 2
    /\ \E x \in Puntos(2) : \A i \in 1..2 : CumpleOriginal(x, i)
    /\ \E x \in Puntos(2) : CumpleOriginal(x, 1) /\ ~CumpleOriginal(x, 2)

----------------------------------------------------------------------------
(* Claims about resolver_modelo (specification SpecResolver).              *)

ResolucionHecha == fase = "hecho" /\ retorno.tipo = "resolucion"

\* C8 (as claimed): every call of resolver_modelo, with any model of numeric
\* lists and any strategy name, ends by returning a result record: no path
\* raises an exception.
C8_SiempreDevuelveRegistro ==
    ResolucionHecha => retorno.ret.tipo = "registro"

\* the strategy name claim C9 expects in the record
NombreEsperado ==
    IF metodo \in {"auto", Ninguno}
    THEN seleccionar_algoritmo_automaticamente(tipo_variables, restricciones)
    ELSE metodo

\* C9 (as claimed): the metodo field of the returned record is the explicit
\* name passed by the caller when one is given, supported or not, and the
\* selector's value when metodo is 'auto' or None; it is never 'auto'.
C9_MetodoEsElNombreDado ==
    (ResolucionHecha /\ retorno.ret.tipo = "registro")
        => /\ retorno.ret.valor.metodo = NombreEsperado
           /\ retorno.ret.valor.metodo # "auto"

\* C9 (amended): the metodo field of every record resolver_modelo returns is
\* the explicit name passed by the caller when it is not empty, 'desconocido'
\* when the explicit name is the empty string, and the selector's value when
\* metodo is 'auto' or None; it is never 'auto'.
C9_MetodoEsElResuelto ==
    (ResolucionHecha /\ retorno.ret.tipo = "registro")
        => /\ retorno.ret.valor.metodo =
                 IF metodo = "" THEN "desconocido" ELSE NombreEsperado
           /\ retorno.ret.valor.metodo # "auto"

\* C9 witness: an automatic call on a mixed model returned a record of the dual
C9_Testigo ==
    /\ ResolucionHecha
    /\ metodo = "auto"
    /\ tipo_variables = <<"continua", "entera">>
    /\ retorno.ret.tipo = "registro"
    /\ retorno.ret.valor.metodo = "algoritmo_dual"
    /\ retorno.ret.valor.exito

\* C10: given an explicit strategy name that is none of the five dispatchable
\* names, resolver_modelo returns a record with exito False, estado 'Metodo
\* no soportado', no variables and no objective value, and runs no strategy
\* function and no backend solve.
C10_NoSoportado ==
    (ResolucionHecha /\ metodo \notin {"auto", Ninguno}
        /\ metodo \notin {"simplex", "punto_interior", "programacion_entera",
                          "algoritmo_dual", "relajacion_lagrangiana"})
        => /\ retorno.ret.tipo = "registro"
           /\ ~retorno.ret.valor.exito
           /\ retorno.ret.valor.estado = "Metodo no soportado"
           /\ retorno.ret.valor.variables = <<>>
           /\ retorno.ret.valor.valor_objetivo = <<>>
           /\ traza = <<>>

\* C10 witness: a model with two rows was given to a strategy that does not
\* exist, and the call returned
C10_Testigo ==
    /\ ResolucionHecha
    /\ metodo = "branch_and_cut"
    /\ Len(restricciones) = 2 /\ Len(coef_objetivo) = 2
    /\ retorno.ret.valor.estado = "Metodo no soportado"

----------------------------------------------------------------------------
(* Claims about the strategy functions.                                    *)

\* the call entered the strategy function of that name
EntroEn(nombre) == traza # <<>> /\ traza[1] = EvFormulador(nombre)

\* the backend solves of the call
Solves == SelectSeq(traza, LAMBDA ev : ev.ev = "solve")

\* C11: resolver_con_algoritmo_dual given an empty constraint list returns a
\* record with exito False, an explanatory message, no variables and no
\* objective value, and no program is built and no backend solve is run.
C11_DualSinRestricciones ==
    (ResolucionHecha /\ EntroEn("resolver_con_algoritmo_dual")
        /\ restricciones = <<>>)
        => /\ retorno.ret.tipo = "registro"
           /\ ~retorno.ret.valor.exito
           /\ retorno.ret.valor.mensaje.texto \notin {"", Ninguno}
           /\ retorno.ret.valor.variables = <<>>
           /\ retorno.ret.valor.valor_objetivo = <<>>
           /\ Solves = <<>>
           /\ \A i \in 1..Len(traza) : traza[i].prob = <<>>

\* C11 witness: the dual strategy was asked for a model of two variables and
\* no constraint, and returned its 'Sin restricciones' record
C11_Testigo ==
    /\ ResolucionHecha
    /\ metodo = "algoritmo_dual"
    /\ Len(coef_objetivo) = 2 /\ restricciones = <<>>
    /\ EntroEn("resolver_con_algoritmo_dual")
    /\ retorno.ret.valor.estado = "Sin restricciones"

----------------------------------------------------------------------------
(* Claims about the front ends (specification SpecInterfaz).               *)

\* the positions of bitacora holding a step of one of the given names
PasosDe(nombres) == {i \in 1..Len(bitacora) : bitacora[i].paso \in nombres}

\* the validator's answer (True, None) / (False, reason) as bitacora keeps it
Acepto(i) == bitacora[i].paso = "validar_entrada" /\ bitacora[i].dato = Ninguno
Rechazo(i) == bitacora[i].paso = "validar_entrada" /\ bitacora[i].dato # Ninguno

\* C12: in both front ends resolver_modelo is called only after
\* validar_entrada has returned (True, None) for the same model; when the
\* validation returns False the reason is reported, and no strategy
\* selection and no solve follow in that run.
C12_ResolverSoloTrasValidar ==
    interfaz \in {"consola", "web"} =>
        /\ \A i \in PasosDe({"resolver_modelo"}) :
              \E j \in 1..(i - 1) :
                  Acepto(j) /\ bitacora[j].modelo = bitacora[i].modelo
        /\ traza # <<>> => PasosDe({"resolver_modelo"}) # {}
        /\ \A j \in 1..Len(bitacora) : Rechazo(j) =>
              /\ \A i \in (j + 1)..Len(bitacora) :
                    bitacora[i].paso = "informar_error"
              /\ traza = <<>>
              /\ fase \in {"rechazado", "fin"}
              /\ fase = "fin" =>
                    /\ Len(bitacora) = j + 1
                    /\ bitacora[j + 1].dato = bitacora[j].dato
                    /\ bitacora[j + 1].dato \notin {"", Ninguno}

\* C12 witness: the page, with the automatic selection, validated a model of
\* two rows, selected, solved and showed the result
C12_Testigo ==
    /\ interfaz = "web"
    /\ fase = "fin"
    /\ Len(restricciones) = 2
    /\ Len(bitacora) = 4
    /\ Acepto(1)
    /\ bitacora[2].paso = "seleccionar_algoritmo_automaticamente"
    /\ bitacora[3].paso = "resolver_modelo"
    /\ bitacora[4].paso = "mostrar_resultado"

----------------------------------------------------------------------------
(* Claims about the programs the strategy functions build and the records  *)
(* they make of a solve (specification SpecFormular).                      *)

\* the program given to the backend by the call
ProgramaResuelto == Solves[1].prob[1]

\* the outcome the backend gave
SalidaDelBackend == Solves[1].sol[1]

\* the canonical rows and right-hand sides of the model of the call
Canonico ==
    _normalizar_restricciones_en_menor_igual(
        restricciones, tipo_restricciones, valores_restricciones)

\* (#'<=') + (#'>=') + 2*(#'='), counted on the model of the call
NumCanonicas ==
    Cuenta(tipo_restricciones, Len(tipo_restricciones), {"<=", ">="})
        + 2 * Cuenta(tipo_restricciones, Len(tipo_restricciones), {"="})

SinCotaSuperior(v) == v.lowBound = 0 /\ v.upBound = Ninguno

\* C13: the program of resolver_con_relajacion_lagrangiana has as many slack
\* variables as canonical rows (two for an '=' row), every slack and every x
\* has lower bound 0 and no upper bound, and canonical row i is exactly
\* sum(coef * x) <= rhs_i + slack_i, slack_i being in no other constraint.
C13_ProgramaRelajado ==
    (ResolucionHecha /\ EntroEn("resolver_con_relajacion_lagrangiana")) =>
        LET prob == ProgramaResuelto
            m == Len(Canonico[1])
        IN /\ Len(Solves) = 1
           /\ m = NumCanonicas
           /\ Len(prob.holguras) = m
           /\ Len(prob.vars) = Len(coef_objetivo)
           /\ \A j \in 1..m : SinCotaSuperior(prob.holguras[j])
           /\ \A i \in 1..Len(prob.vars) : SinCotaSuperior(prob.vars[i])
           /\ Len(prob.restr) = m
           /\ \A j \in 1..m :
                 /\ prob.restr[j].coefs = Canonico[1][j]
                 /\ prob.restr[j].signo = "<="
                 /\ prob.restr[j].rhs = Canonico[2][j]
                 /\ prob.restr[j].holgura = j
                 /\ \A k \in 1..m : k # j => prob.restr[k].holgura # j

\* C13 witness: the relaxation of a model with two variables, an '=' row and a
\* '>=' row was built with three slacks and solved
C13_Testigo ==
    /\ ResolucionHecha
    /\ EntroEn("resolver_con_relajacion_lagrangiana")
    /\ Len(coef_objetivo) = 2
    /\ tipo_restricciones = <<"=", ">=">>
    /\ Len(ProgramaResuelto.holguras) = 3
    /\ ProgramaResuelto.restr[3].holgura = 3

\* the value the backend gave to slack j exceeds the tolerance 1e-6
HolguraActiva(j) ==
    /\ ValorDe(SalidaDelBackend, j) # <<>>
    /\ ValorDe(SalidaDelBackend, j)[1] > Tolerancia

TextoSinViolaciones ==
    "Resolucion con relajacion lagrangiana y penalizacion de violaciones. No se observaron violaciones significativas."

\* C14: when the relaxed program is solved to optimality, the message names,
\* each with its value, exactly the slacks whose value is strictly greater
\* than 1e-6: no slack with a value of 1e-6 or less, or with no value, is
\* named; when no slack exceeds the tolerance the message says that no
\* significant violation was observed.
C14_ViolacionesActivas ==
    (ResolucionHecha /\ EntroEn("resolver_con_relajacion_lagrangiana")
        /\ SalidaDelBackend.estado = "Optimal") =>
        LET ns == Len(ProgramaResuelto.holguras)
            msg == retorno.ret.valor.mensaje
            nombrada(j) ==
                \E k \in 1..Len(msg.activas) :
                    msg.activas[k] = [nombre |-> Nombre("s_relaj_", j),
                                      valor |-> ValorDe(SalidaDelBackend, j)]
        IN /\ retorno.ret.valor.exito
           /\ \A j \in 1..ns : HolguraActiva(j) <=> nombrada(j)
           /\ \A k \in 1..Len(msg.activas) :
                 \E j \in 1..ns : msg.activas[k].nombre = Nombre("s_relaj_", j)
           /\ Len(msg.activas) = Cardinality({j \in 1..ns : HolguraActiva(j)})
           /\ (\A j \in 1..ns : ~HolguraActiva(j)) <=> msg.texto = TextoSinViolaciones

\* C14 witness: of three slacks the first and the third came out above the
\* tolerance and the second at zero, and the message names those two
C14_Testigo ==
    /\ ResolucionHecha
    /\ EntroEn("resolver_con_relajacion_lagrangiana")
    /\ SalidaDelBackend.estado = "Optimal"
    /\ Len(ProgramaResuelto.holguras) = 3
    /\ HolguraActiva(1) /\ ~HolguraActiva(2) /\ HolguraActiva(3)
    /\ Len(retorno.ret.valor.mensaje.activas) = 2

----------------------------------------------------------------------------
(* Claim about the end-to-end scenario (specification SpecEscenario).      *)

\* the model of the scenario: maximize 3 x1 + 5 x2 subject to 2 x1 + x2 <= 10
EsElEscenario ==
    /\ coef_objetivo = <<3, 5>>
    /\ restricciones = <<<<2, 1>>>>
    /\ tipo_restricciones = <<"<=">>
    /\ valores_restricciones = <<10>>

\* a number of whole units as a value
Unidades(k) == <<k * Escala>>

\* C15: for the objective [3, 5] and the single constraint [2, 1] <= 10,
\* resolver_modelo with 'simplex' returns exito True with x1 = 0, x2 = 10 and
\* objective value 50, and with 'algoritmo_dual' returns exito True with
\* y1 = 5 and objective value 50, the dual objective equal to the primal one.
C15_EscenarioPrimalYDual ==
    (ResolucionHecha /\ EsElEscenario) =>
        /\ retorno.ret.tipo = "registro"
        /\ retorno.ret.valor.exito
        /\ retorno.ret.valor.valor_objetivo = Unidades(50)
        /\ metodo = "simplex" =>
              retorno.ret.valor.variables =
                  <<[nombre |-> Nombre("x", 1), valor |-> Unidades(0)],
                    [nombre |-> Nombre("x", 2), valor |-> Unidades(10)]>>
        /\ metodo = "algoritmo_dual" =>
              retorno.ret.valor.variables =
                  <<[nombre |-> Nombre("y", 1), valor |-> Unidades(5)]>>

\* C15 witness: the dual strategy solved the scenario and reported y1 = 5
C15_Testigo ==
    /\ ResolucionHecha
    /\ EsElEscenario
    /\ metodo = "algoritmo_dual"
    /\ Len(Solves) = 1
    /\ retorno.ret.valor.variables[1].valor = Unidades(5)

----------------------------------------------------------------------------
(* Claim about the order of the validator's checks (specification          *)
(* SpecValidar).                                                           *)

\* the five checks of claim C16, each read off the arguments alone: check k
\* is violated
Viola(k) ==
    LET c == args[1]  A == args[2]  t == args[3]  b == args[4]
    IN CASE k = 1 -> ~EsLista(c) \/ ObjetivoConNoNumero(c)
         [] k = 2 -> ~EsLista(A) \/ \E i \in 1..Len(A.e) : ~EsLista(A.e[i])
         [] k = 3 -> ~EsLista(t) \/ SignoDesconocido(t)
         \* the three counts agree: a right-hand side without a length has
         \* no count to agree with
         [] k = 4 -> ConteoDistinto(A, t, b) \/ ~EsLista(b)
         [] k = 5 -> FilaDeOtroLargo(c, A)

MensajeDelControl(k) ==
    CASE k = 1 -> MsgObjetivo
      [] k = 2 -> MsgRestricciones
      [] k = 3 -> MsgTipos
      [] k = 4 -> MsgConteo
      [] k = 5 -> MsgLongitud

Violados == {k \in 1..5 : Viola(k)}
PrimerViolado == CHOOSE k \in Violados : \A j \in Violados : k <= j

\* C16 (as claimed): the checks are evaluated in the order 1..5 and the
\* validator stops at the first violated one: the reason returned is the
\* message of the lowest-numbered violated check.
C16_MensajeDelPrimerControlViolado ==
    ValidacionHecha =>
        retorno.valor = IF Violados = {} THEN Valido
                        ELSE Invalido(MensajeDelControl(PrimerViolado))

\* C17: for every validated model with at least one constraint, the program
\* of resolver_con_algoritmo_dual is a minimization with exactly one
\* continuous variable y_j >= 0 per canonical row, m = (#'<=') + (#'>=') +
\* 2*(#'=') of them, named y1..ym in canonical row order; its objective is
\* sum_j b_j * y_j, b the canonical right-hand sides; and it has exactly one
\* constraint per variable index k of the model, sum_j A[j][k] * y_j >= c_k,
\* A the canonical matrix, the coefficients copied without scaling.
C17_ProgramaDual ==
    (ResolucionHecha /\ EntroEn("resolver_con_algoritmo_dual")
        /\ Len(restricciones) >= 1) =>
        LET prob == ProgramaResuelto
            m == NumCanonicas
            n == Len(coef_objetivo)
        IN /\ Len(Solves) = 1
           /\ prob.sentido = "min"
           /\ Len(Canonico[1]) = m /\ Len(Canonico[2]) = m
           /\ Len(prob.vars) = m /\ prob.holguras = <<>>
           /\ \A j \in 1..m :
                 prob.vars[j] = [nombre |-> Nombre("y", j), lowBound |-> 0,
                                 upBound |-> Ninguno, cat |-> "Continuous"]
           /\ Len(prob.objetivo) = m
           /\ \A j \in 1..m : prob.objetivo[j] = Canonico[2][j]
           /\ Len(prob.restr) = n
           /\ \A k \in 1..n :
                 /\ Len(prob.restr[k].coefs) = m
                 /\ \A j \in 1..m : prob.restr[k].coefs[j] = Canonico[1][j][k]
                 /\ prob.restr[k].signo = ">="
                 /\ prob.restr[k].rhs = coef_objetivo[k]
                 /\ prob.restr[k].holgura = 0

\* C17 witness: the dual of a model with two variables, a '>=' row and an '='
\* row was built with three variables and two constraints, and solved
C17_Testigo ==
    /\ ResolucionHecha
    /\ EntroEn("resolver_con_algoritmo_dual")
    /\ coef_objetivo = <<2, 0 - 1>>
    /\ restricciones = <<<<1, 2>>, <<0 - 1, 0 - 2>>>>
    /\ tipo_restricciones = <<">=", "=">>
    /\ Len(ProgramaResuelto.vars) = 3
    /\ ProgramaResuelto.restr[2].coefs = <<0 - 2, 0 - 2, 2>>

\* 10 * sum of |c_i|, written out
DiezPorSumaAbs(c) ==
    10 * Suma([i \in 1..Len(c) |-> IF c[i] < 0 THEN 0 - c[i] ELSE c[i]])

\* C18: the penalty of resolver_con_relajacion_lagrangiana is
\* max(10, 10 * sum of |c_i|) for every objective, 10 for an all-zero one,
\* also with negative coefficients; it is at least 10, and the same penalty
\* multiplies every slack of the objective sum(c_i * x_i) - P * sum(slacks),
\* which is maximized.
C18_Penalizacion ==
    (ResolucionHecha /\ EntroEn("resolver_con_relajacion_lagrangiana")) =>
        LET prob == ProgramaResuelto
            P == IF DiezPorSumaAbs(coef_objetivo) > 10
                 THEN DiezPorSumaAbs(coef_objetivo) ELSE 10
        IN /\ prob.penalizacion = P
           /\ prob.penalizacion >= 10
           /\ (\A i \in 1..Len(coef_objetivo) : coef_objetivo[i] = 0)
                 => prob.penalizacion = 10
           /\ prob.sentido = "max"
           /\ prob.objetivo = coef_objetivo
           /\ Len(prob.objetivo_holguras) = Len(prob.holguras)
           /\ \A j \in 1..Len(prob.holguras) : prob.objetivo_holguras[j] = 0 - P

\* C18 witness: the relaxation of a model whose two objective coefficients
\* are negative was built with the penalty 30 on each of its two slacks
C18_Testigo ==
    /\ ResolucionHecha
    /\ EntroEn("resolver_con_relajacion_lagrangiana")
    /\ coef_objetivo = <<0 - 1, 0 - 2>>
    /\ Len(ProgramaResuelto.holguras) = 2
    /\ ProgramaResuelto.objetivo_holguras = <<0 - 30, 0 - 30>>

----------------------------------------------------------------------------
(* Claim about the shape of the result record (specification SpecResolver) *)

CamposDelRegistro ==
    {"metodo", "exito", "estado", "variables", "valor_objetivo", "mensaje"}

\* C19: every record returned by resolver_modelo, made by itself or by one
\* of the five strategy functions, has exactly the six fields metodo, exito,
\* estado, variables, valor_objetivo and mensaje; on every path where exito
\* is False (a backend status that is not optimal, the dual without
\* constraints, an unsupported strategy) variables is empty, valor_objetivo
\* is None and estado is a non-empty text.
C19_FormaDelRegistro ==
    (ResolucionHecha /\ retorno.ret.tipo = "registro") =>
        LET reg == retorno.ret.valor
        IN /\ DOMAIN reg = CamposDelRegistro
           /\ reg.exito \in BOOLEAN
           /\ ~reg.exito =>
                 /\ reg.variables = <<>>
                 /\ reg.valor_objetivo = <<>>
                 /\ reg.estado \notin {"", Ninguno}

\* C19 witness: linprog failed on a model of two variables and gave no
\* message, and the record has the placeholder status and no values
C19_Testigo ==
    /\ ResolucionHecha
    /\ metodo = "punto_interior"
    /\ Len(coef_objetivo) = 2
    /\ Len(Solves) = 1
    /\ Solves[1].sol[1].estado = "Infeasible" /\ Solves[1].sol[1].mensaje = ""
    /\ ~retorno.ret.valor.exito
    /\ retorno.ret.valor.estado = "Sin solucion"
    /\ retorno.ret.valor.variables = <<>>

----------------------------------------------------------------------------
(* Claim about the automatic selection (specification SpecAuto).           *)

LosCuatroAutomaticos ==
    {"simplex", "programacion_entera", "algoritmo_dual", "relajacion_lagrangiana"}

\* C20: for every tipo_variables list, of any length and with any tags, and
\* every restricciones list, seleccionar_algoritmo_automaticamente returns
\* one of 'simplex', 'programacion_entera', 'algoritmo_dual' and
\* 'relajacion_lagrangiana', never 'auto' and never a name missing from the
\* dispatch table; so resolver_modelo called with 'auto' or None enters one
\* of those four strategy functions and never returns the
\* unsupported-strategy record.
C20_SeleccionTotal ==
    /\ SeleccionHecha =>
          /\ retorno.valor \in LosCuatroAutomaticos
          /\ retorno.valor \in Despachables
          /\ retorno.valor # "auto"
    /\ ResolucionHecha =>
          /\ traza # <<>>
          /\ traza[1].ev = "formulador"
          /\ traza[1].nombre \in
                {"resolver_simplex", "resolver_con_programacion_entera",
                 "resolver_con_algoritmo_dual", "resolver_con_relajacion_lagrangiana"}
          /\ retorno.ret.tipo = "registro"
          /\ retorno.ret.valor.estado # "Metodo no soportado"
          /\ retorno.ret.valor.metodo \in LosCuatroAutomaticos

\* C20 witness: resolver_modelo, given None and two variables tagged
\* 'binaria' and 'continua' with six rows, ran the relaxation
C20_Testigo ==
    /\ ResolucionHecha
    /\ metodo = Ninguno
    /\ tipo_variables = <<"binaria", "continua">>
    /\ Len(restricciones) = 6
    /\ EntroEn("resolver_con_relajacion_lagrangiana")
    /\ retorno.ret.valor.metodo = "relajacion_lagrangiana"

----------------------------------------------------------------------------
(* Claims about the console wizard (specification SpecAsistente).          *)

\* the three constraint lists have one length, every stored row has one
\* coefficient per objective coefficient, and there is no type tag or one
\* per objective coefficient
DatosCoherentes(d) ==
    /\ Len(d.tipo_restricciones) = Len(d.restricciones)
    /\ Len(d.valores_restricciones) = Len(d.restricciones)
    /\ d.restricciones # <<>> => ~SinObjetivo(d)
    /\ \A i \in 1..Len(d.restricciones) : Len(d.restricciones[i]) = NumVariables(d)
    /\ \/ d.tipo_variables = <<>>
       \/ ~SinObjetivo(d) /\ Len(d.tipo_variables) = NumVariables(d)

\* the four lists that depend on the objective are empty
ListasVacias(d) ==
    /\ d.tipo_variables = <<>>
    /\ d.restricciones = <<>>
    /\ d.tipo_restricciones = <<>>
    /\ d.valores_restricciones = <<>>

\* main() is past its loop, on the way to the validation and the solve
TrasElBucle ==
    \/ fase \in {"enviado", "validado", "rechazado", "seleccionado", "resuelto"}
    \/ bitacora # <<>>
    \/ traza # <<>>

\* the lists main() hands to validar_entrada and resolver_modelo are those
\* of the dictionary
LeidoDeDatos ==
    /\ <<coef_objetivo>> = datos.coef_objetivo
    /\ tipo_variables = datos.tipo_variables
    /\ restricciones = datos.restricciones
    /\ tipo_restricciones = datos.tipo_restricciones
    /\ valores_restricciones = datos.valores_restricciones

\* what holds in every state of the wizard
EstadoDelAsistente ==
    /\ DatosCoherentes(datos)
    /\ TrasElBucle => datos_configurados(datos) /\ LeidoDeDatos
    /\ ~TrasElBucle => fase \in {"menu", "fin", "abortado"} /\ retorno.tipo # "resolucion"

\* what holds of every step of the wizard
PasoDelAsistente ==
    \* a turn of the loop that gives a new objective empties the four lists
    /\ fase = "menu" /\ datos'.coef_objetivo # datos.coef_objetivo =>
          /\ ~SinObjetivo(datos')
          /\ ListasVacias(datos')
    \* while there is no objective, a turn changes the dictionary only by
    \* giving it one
    /\ fase = "menu" /\ SinObjetivo(datos) /\ datos' # datos =>
          datos'.coef_objetivo # datos.coef_objetivo
    \* the loop is left for the validation with a configured dictionary, or
    \* the run ends there with nothing validated and nothing solved
    /\ fase = "menu" /\ fase' # "menu" =>
          /\ datos' = datos
          /\ traza' = <<>>
          /\ bitacora' = <<>>
          /\ \/ fase' = "enviado" /\ datos_configurados(datos) /\ LeidoDeDatos'
             \/ fase' \in {"fin", "abortado"}
    \* past the loop the dictionary is not touched again
    /\ fase # "menu" => datos' = datos

\* C21: in the console wizard main(), after any sequence of menu options: a
\* turn that replaces the objective (option 1) leaves tipo_variables and the
\* three constraint lists empty; while no objective is set no turn changes
\* the dictionary except by setting one (options 2 and 3 change nothing); in
\* every reachable state the three constraint lists have equal length, every
\* stored row has len(coef_objetivo) coefficients and tipo_variables is
\* empty or has len(coef_objetivo) entries. The loop is left towards
\* validation and solving only with datos_configurados true and the lists of
\* the dictionary handed over; ending from the menu (option 0) runs no
\* validation and no solve.
C21_AsistenteCoherente == []EstadoDelAsistente /\ [][PasoDelAsistente]_vars

\* C21 witness: the run went through the menu, left it by option 4 and
\* solved a model of two variables and two constraints read from the
\* dictionary
C21_Testigo ==
    /\ interfaz = "consola"
    /\ fase = "fin"
    /\ Len(Solves) > 0
    /\ datos_configurados(datos)
    /\ NumVariables(datos) = 2
    /\ Len(datos.restricciones) = 2
    /\ datos.tipo_variables = <<"continua", "entera">>
    /\ LeidoDeDatos

=============================================================================
